---- MODULE Spec2Model ----
(***************************************************************************)
(* Model of src/src/App.js: the App component's hook state (username,      *)
(* locations, shareUrl, error, isLoading), the snapshot fetch started by   *)
(* the effect, the module-level socket.io connection with its handlers,    *)
(* and the share flow (validation, position capture, POST).                *)
(*                                                                         *)
(* Coordinates are in thousandths of a degree, so 51.505 is 51505 and      *)
(* -0.09 is -90.  Strings that JavaScript builds by concatenation are      *)
(* tuples of their parts, and the empty string '' is the empty tuple <<>>. *)
(* The timestamp field of a record is not read by any state change and is  *)
(* left out of the records.                                                *)
(***************************************************************************)
EXTENDS Integers, Sequences, FiniteSets, TLC

VARIABLES
  locationId,      \* URL parameter locationId; "" when absent (falsy)
  username,        \* useState('')
  locations,       \* useState([]): a JavaScript value, see Arr / Obj
  shareUrl,        \* useState('')
  error,           \* useState('')
  isLoading,       \* useState(true)
  fetchPc,         \* fetchLocations: "pending" until its finally block ran
  sock,            \* the socket.io connection
  attempts,        \* reconnection attempts made since the last connect
  hasGeolocation,  \* navigator.geolocation is present
  capturing,       \* getCurrentPosition calls whose callback is pending
  posts,           \* bodies of POST /api/locations requests in flight
  mounted,         \* the component is mounted (effect cleanup has not run)
  crashed,         \* a render threw and React unmounted the tree
  last             \* the handler that ran last (history)

vars == <<locationId, username, locations, shareUrl, error, isLoading, fetchPc,
          sock, attempts, hasGeolocation, capturing, posts, mounted, crashed,
          last>>

-----------------------------------------------------------------------------
(* Bounds of the model *)

\* the collection is not grown beyond this many records
MaxLen == 3
\* longest array the backend answers GET /api/locations with
MaxSnapshot == 1
\* share attempts (captures plus POSTs) in flight at once
MaxInFlight == 1

(* Program constants *)

reconnectionAttempts == 3
FallbackLatitude == 51505
FallbackLongitude == -90

-----------------------------------------------------------------------------
(* Values *)

Ids == {"a", "b"}
Names == {"u"}
\* <<latitude, longitude>>
Coords == {<<1000, 2000>>, <<9000, 9000>>}
LocationIds == {"", "a"}
GeoErrors == {"denied"}
FetchErrorBodies == {"not found"}
ShareErrorBodies == {"invalid"}

\* Record constructors list their fields in the order TLC keeps them (the
\* order in which the names first occur in the module).
LocationRecord(i, n, c) ==
  [username |-> n, id |-> i, latitude |-> c[1], longitude |-> c[2]]

Records == {LocationRecord(i, n, c) : i \in Ids, n \in Names, c \in Coords}

FallbackRecord ==
  [username |-> "Fallback User", id |-> "fallback",
   latitude |-> FallbackLatitude, longitude |-> FallbackLongitude]

\* a JavaScript array of records
Arr(s) == [error |-> <<>>, isArray |-> TRUE, items |-> s]
\* a JavaScript object {error: e}
Obj(e) == [error |-> <<e>>, isArray |-> FALSE, items |-> <<>>]

IdsOf(s) == {s[k].id : k \in 1..Len(s)}

RECURSIVE SeqsUpTo(_, _)
SeqsUpTo(S, n) ==
  IF n = 0 THEN {<<>>}
  ELSE LET shorter == SeqsUpTo(S, n - 1)
       IN  shorter \cup {Append(s, r) : s \in shorter, r \in S}

\* the backend's answers to GET /api/locations: records with distinct ids
SnapshotArrays ==
  {s \in SeqsUpTo(Records, MaxSnapshot) : Cardinality(IdsOf(s)) = Len(s)}

MsgFetchFailed == <<"Failed to fetch locations. Is the backend running at http://localhost:5000?">>
MsgConnect == <<"Cannot connect to backend. Please ensure the server is running on http://localhost:5000">>
MsgNoUsername == <<"Please enter a username">>
MsgNoGeolocation == <<"Geolocation is not supported by this browser.">>
MsgShareFailed == <<"Error sharing location. Is the backend running?">>
MsgCopyFailed == <<"Failed to copy URL">>
MsgGeoError(m) == <<"Error getting location: ", m>>

Origin == "http://localhost:3000"
ShareUrlOf(i) == <<Origin, "?locationId=", i>>

-----------------------------------------------------------------------------
(* Rendering *)

\* prev => [...prev, location]
appendLocation(prev, location) == Arr(Append(prev.items, location))

\* spreading a value that is not iterable throws a TypeError in the updater
spreadThrows(prev) == ~prev.isArray

\* mapCenter taking the first record instead of the last
mapCenterFirst ==
  IF Len(locations.items) > 0
    THEN <<locations.items[1].latitude, locations.items[1].longitude>>
    ELSE <<FallbackLatitude, FallbackLongitude>>

mapCenter ==
  IF Len(locations.items) > 0
    THEN <<locations.items[Len(locations.items)].latitude,
           locations.items[Len(locations.items)].longitude>>
    ELSE <<FallbackLatitude, FallbackLongitude>>

\* what App returns for the given state; "throws" when locations.map is
\* called on a value that is not an array
Render(locs, err, loading) ==
  IF loading THEN "loading"
  ELSE IF err # <<>> THEN "error"
  ELSE IF ~locs.isArray THEN "throws"
  ELSE "main"

View == IF mounted THEN Render(locations, error, isLoading) ELSE "none"

\* the input and the share button are rendered
ShareControlsShown == View = "main" /\ locationId = ""

-----------------------------------------------------------------------------
\* Init with useState(false) for isLoading
InitNotLoading ==
  /\ locationId \in LocationIds
  /\ username = ""
  /\ locations = Arr(<<>>)
  /\ shareUrl = <<>>
  /\ error = <<>>
  /\ isLoading = FALSE
  /\ fetchPc = "pending"
  /\ sock = "connecting"
  /\ attempts = 0
  /\ hasGeolocation \in BOOLEAN
  /\ capturing = <<>>
  /\ posts = <<>>
  /\ mounted = TRUE
  /\ crashed = FALSE
  /\ last = "mount"

Init ==
  /\ locationId \in LocationIds
  /\ username = ""
  /\ locations = Arr(<<>>)
  /\ shareUrl = <<>>
  /\ error = <<>>
  /\ isLoading = TRUE
  /\ fetchPc = "pending"
  /\ sock = "connecting"
  /\ attempts = 0
  /\ hasGeolocation \in BOOLEAN
  /\ capturing = <<>>
  /\ posts = <<>>
  /\ mounted = TRUE
  /\ crashed = FALSE
  /\ last = "mount"

\* an uncaught render error unmounts the tree, which runs the effect cleanup
Unmount(throws) ==
  /\ mounted' = (mounted /\ ~throws)
  /\ crashed' = (crashed \/ (mounted /\ throws))
  /\ sock' = IF mounted /\ throws THEN "closed" ELSE sock

-----------------------------------------------------------------------------
(* fetchLocations *)

\* FetchSingleRecord without the finally block: isLoading stays true
FetchSingleRecordStillLoading(data) ==
  /\ fetchPc = "pending" /\ locationId # ""
  /\ data.id = locationId
  /\ locations' = Arr(<<data>>)
  /\ fetchPc' = "done"
  /\ last' = "FetchSingleRecord"
  /\ UNCHANGED <<locationId, username, shareUrl, error, isLoading, sock,
                 attempts, hasGeolocation, capturing, posts, mounted, crashed>>

\* GET /api/locations/:id answered with a record
FetchSingleRecord(data) ==
  /\ fetchPc = "pending" /\ locationId # ""
  /\ data.id = locationId
  /\ locations' = Arr(<<data>>)
  /\ isLoading' = FALSE
  /\ fetchPc' = "done"
  /\ last' = "FetchSingleRecord"
  /\ UNCHANGED <<locationId, username, shareUrl, error, sock, attempts,
                 hasGeolocation, capturing, posts, mounted, crashed>>

\* FetchSingleError substituting the placeholder as the catch block does
FetchSingleErrorFallback(e) ==
  /\ fetchPc = "pending" /\ locationId # ""
  /\ error' = <<e>>
  /\ locations' = Arr(<<FallbackRecord>>)
  /\ isLoading' = FALSE
  /\ fetchPc' = "done"
  /\ last' = "FetchSingleError"
  /\ UNCHANGED <<locationId, username, shareUrl, sock, attempts,
                 hasGeolocation, capturing, posts, mounted, crashed>>

\* GET /api/locations/:id answered with {error: e}
FetchSingleError(e) ==
  /\ fetchPc = "pending" /\ locationId # ""
  /\ error' = <<e>>
  /\ locations' = Arr(<<>>)
  /\ isLoading' = FALSE
  /\ fetchPc' = "done"
  /\ last' = "FetchSingleError"
  /\ UNCHANGED <<locationId, username, shareUrl, sock, attempts,
                 hasGeolocation, capturing, posts, mounted, crashed>>

\* GET /api/locations answered with JSON data: setLocations(data)
FetchAll(data) ==
  /\ fetchPc = "pending" /\ locationId = ""
  /\ locations' = data
  /\ isLoading' = FALSE
  /\ fetchPc' = "done"
  /\ last' = "FetchAll"
  /\ Unmount(Render(data, error, FALSE) = "throws")
  /\ UNCHANGED <<locationId, username, shareUrl, error, attempts,
                 hasGeolocation, capturing, posts>>

\* FetchFailed without the setError call
FetchFailedSilent ==
  /\ fetchPc = "pending"
  /\ locations' = Arr(<<FallbackRecord>>)
  /\ isLoading' = FALSE
  /\ fetchPc' = "done"
  /\ last' = "FetchFailed"
  /\ UNCHANGED <<locationId, username, shareUrl, error, sock, attempts,
                 hasGeolocation, capturing, posts, mounted, crashed>>

\* fetch rejected or the body is not JSON: the catch block
FetchFailed ==
  /\ fetchPc = "pending"
  /\ error' = MsgFetchFailed
  /\ locations' = Arr(<<FallbackRecord>>)
  /\ isLoading' = FALSE
  /\ fetchPc' = "done"
  /\ last' = "FetchFailed"
  /\ UNCHANGED <<locationId, username, shareUrl, sock, attempts,
                 hasGeolocation, capturing, posts, mounted, crashed>>

-----------------------------------------------------------------------------
(* The socket and its handlers *)

\* the connection is established; the 'connect' handler only logs
SocketConnect ==
  /\ sock = "connecting"
  /\ sock' = "connected"
  /\ attempts' = 0
  /\ last' = "SocketConnect"
  /\ UNCHANGED <<locationId, username, locations, shareUrl, error, isLoading,
                 fetchPc, hasGeolocation, capturing, posts, mounted, crashed>>

\* ConnectError allowing one reconnection more than reconnectionAttempts
ConnectErrorOneMore ==
  /\ sock = "connecting"
  /\ error' = MsgConnect
  /\ IF attempts <= reconnectionAttempts
       THEN sock' = "connecting" /\ attempts' = attempts + 1
       ELSE sock' = "failed" /\ attempts' = attempts
  /\ last' = "ConnectError"
  /\ UNCHANGED <<locationId, username, locations, shareUrl, isLoading,
                 fetchPc, hasGeolocation, capturing, posts, mounted, crashed>>

\* a connection attempt fails: the 'connect_error' handler runs, and the
\* client retries until reconnectionAttempts reconnections have failed
ConnectError ==
  /\ sock = "connecting"
  /\ error' = MsgConnect
  /\ IF attempts < reconnectionAttempts
       THEN sock' = "connecting" /\ attempts' = attempts + 1
       ELSE sock' = "failed" /\ attempts' = attempts
  /\ last' = "ConnectError"
  /\ UNCHANGED <<locationId, username, locations, shareUrl, isLoading,
                 fetchPc, hasGeolocation, capturing, posts, mounted, crashed>>

\* an established connection is lost; no handler is registered for it and
\* the client starts its first reconnection attempt
ConnectionLost ==
  /\ sock = "connected"
  /\ sock' = "connecting"
  /\ attempts' = 1
  /\ last' = "ConnectionLost"
  /\ UNCHANGED <<locationId, username, locations, shareUrl, error, isLoading,
                 fetchPc, hasGeolocation, capturing, posts, mounted, crashed>>

\* NewLocation without the "if (!locationId)" test
NewLocationUnguarded(location) ==
  /\ sock = "connected"
  /\ last' = "NewLocation"
  /\ Len(locations.items) < MaxLen
  /\ locations' = IF spreadThrows(locations)
                    THEN locations
                    ELSE appendLocation(locations, location)
  /\ Unmount(spreadThrows(locations))
  /\ UNCHANGED <<locationId, username, shareUrl, error, isLoading, fetchPc,
                 attempts, hasGeolocation, capturing, posts>>

\* socket.on('newLocation', ...)
NewLocation(location) ==
  /\ sock = "connected"
  /\ last' = "NewLocation"
  /\ IF locationId = ""
       THEN /\ Len(locations.items) < MaxLen
            /\ locations' = IF spreadThrows(locations)
                              THEN locations
                              ELSE appendLocation(locations, location)
            /\ Unmount(spreadThrows(locations))
       ELSE UNCHANGED <<locations, mounted, crashed, sock>>
  /\ UNCHANGED <<locationId, username, shareUrl, error, isLoading, fetchPc,
                 attempts, hasGeolocation, capturing, posts>>

\* a cleanup that does not call socket.disconnect()
TeardownNoDisconnect ==
  /\ mounted
  /\ mounted' = FALSE
  /\ last' = "Teardown"
  /\ UNCHANGED <<locationId, username, locations, shareUrl, error, isLoading,
                 fetchPc, sock, attempts, hasGeolocation, capturing, posts,
                 crashed>>

\* the effect's cleanup: socket.disconnect()
Teardown ==
  /\ mounted
  /\ mounted' = FALSE
  /\ sock' = "closed"
  /\ last' = "Teardown"
  /\ UNCHANGED <<locationId, username, locations, shareUrl, error, isLoading,
                 fetchPc, attempts, hasGeolocation, capturing, posts, crashed>>

-----------------------------------------------------------------------------
(* The share flow *)

RemoveAt(s, k) == [j \in 1..(Len(s) - 1) |-> IF j < k THEN s[j] ELSE s[j + 1]]

\* onChange of the username input
SetUsername(u) ==
  /\ ShareControlsShown
  /\ u # username
  /\ username' = u
  /\ last' = "SetUsername"
  /\ UNCHANGED <<locationId, locations, shareUrl, error, isLoading, fetchPc,
                 sock, attempts, hasGeolocation, capturing, posts, mounted,
                 crashed>>

\* ShareLocation without the return statements after setError
ShareLocationNoReturn ==
  /\ ShareControlsShown
  /\ last' = "ShareLocation"
  /\ Len(capturing) + Len(posts) < MaxInFlight
  /\ error' = IF username = "" THEN MsgNoUsername
              ELSE IF ~hasGeolocation THEN MsgNoGeolocation ELSE error
  /\ capturing' = Append(capturing, username)
  /\ UNCHANGED <<locationId, username, locations, shareUrl, isLoading, fetchPc,
                 sock, attempts, hasGeolocation, posts, mounted, crashed>>

\* click on "Share My Location": the checks, then getCurrentPosition
ShareLocation ==
  /\ ShareControlsShown
  /\ last' = "ShareLocation"
  /\ IF username = ""
       THEN error' = MsgNoUsername /\ capturing' = capturing
       ELSE IF ~hasGeolocation
         THEN error' = MsgNoGeolocation /\ capturing' = capturing
         ELSE /\ Len(capturing) + Len(posts) < MaxInFlight
              /\ capturing' = Append(capturing, username)
              /\ error' = error
  /\ UNCHANGED <<locationId, username, locations, shareUrl, isLoading, fetchPc,
                 sock, attempts, hasGeolocation, posts, mounted, crashed>>

\* getCurrentPosition's success callback: the POST is sent
CaptureSuccess(k, c) ==
  /\ k \in 1..Len(capturing)
  /\ posts' = Append(posts, [username |-> capturing[k],
                             latitude |-> c[1], longitude |-> c[2]])
  /\ capturing' = RemoveAt(capturing, k)
  /\ last' = "CaptureSuccess"
  /\ UNCHANGED <<locationId, username, locations, shareUrl, error, isLoading,
                 fetchPc, sock, attempts, hasGeolocation, mounted, crashed>>

\* getCurrentPosition's error callback
CaptureError(k, m) ==
  /\ k \in 1..Len(capturing)
  /\ error' = MsgGeoError(m)
  /\ capturing' = RemoveAt(capturing, k)
  /\ last' = "CaptureError"
  /\ UNCHANGED <<locationId, username, locations, shareUrl, isLoading, fetchPc,
                 sock, attempts, hasGeolocation, posts, mounted, crashed>>

\* the record the backend creates for a posted body
Created(body, i) ==
  [username |-> body.username, id |-> i,
   latitude |-> body.latitude, longitude |-> body.longitude]

\* PostSuccess without the setLocations call
PostSuccessNoAppend(k, i) ==
  /\ k \in 1..Len(posts)
  /\ shareUrl' = ShareUrlOf(i)
  /\ error' = <<>>
  /\ posts' = RemoveAt(posts, k)
  /\ last' = "PostSuccess"
  /\ UNCHANGED <<locationId, username, locations, isLoading, fetchPc, sock,
                 attempts, hasGeolocation, capturing, mounted, crashed>>

\* the POST is answered with the created record
PostSuccess(k, i) ==
  /\ k \in 1..Len(posts)
  /\ shareUrl' = ShareUrlOf(i)
  /\ IF locationId = ""
       THEN /\ Len(locations.items) < MaxLen
            /\ locations' = IF spreadThrows(locations)
                              THEN locations
                              ELSE appendLocation(locations, Created(posts[k], i))
            /\ Unmount(spreadThrows(locations))
       ELSE UNCHANGED <<locations, mounted, crashed, sock>>
  /\ error' = <<>>
  /\ posts' = RemoveAt(posts, k)
  /\ last' = "PostSuccess"
  /\ UNCHANGED <<locationId, username, isLoading, fetchPc, attempts,
                 hasGeolocation, capturing>>

\* PostRejected without the test of data.error: the answer is taken as a
\* created record whose _id is undefined
PostRejectedAsSuccess(k, e) ==
  /\ k \in 1..Len(posts)
  /\ shareUrl' = ShareUrlOf("undefined")
  /\ error' = <<>>
  /\ posts' = RemoveAt(posts, k)
  /\ last' = "PostRejected"
  /\ UNCHANGED <<locationId, username, locations, isLoading, fetchPc, sock,
                 attempts, hasGeolocation, capturing, mounted, crashed>>

\* the POST is answered with {error: e}
PostRejected(k, e) ==
  /\ k \in 1..Len(posts)
  /\ error' = <<e>>
  /\ posts' = RemoveAt(posts, k)
  /\ last' = "PostRejected"
  /\ UNCHANGED <<locationId, username, locations, shareUrl, isLoading, fetchPc,
                 sock, attempts, hasGeolocation, capturing, mounted, crashed>>

\* the POST fails at the transport level: the catch callback
PostFailed(k) ==
  /\ k \in 1..Len(posts)
  /\ error' = MsgShareFailed
  /\ posts' = RemoveAt(posts, k)
  /\ last' = "PostFailed"
  /\ UNCHANGED <<locationId, username, locations, shareUrl, isLoading, fetchPc,
                 sock, attempts, hasGeolocation, capturing, mounted, crashed>>

\* copyToClipboard when writeText rejects
CopyFailed ==
  /\ ShareControlsShown
  /\ shareUrl # <<>>
  /\ error' = MsgCopyFailed
  /\ last' = "CopyFailed"
  /\ UNCHANGED <<locationId, username, locations, shareUrl, isLoading, fetchPc,
                 sock, attempts, hasGeolocation, capturing, posts, mounted,
                 crashed>>

-----------------------------------------------------------------------------
Next ==
  \/ \E data \in Records : FetchSingleRecord(data)
  \/ \E e \in FetchErrorBodies : FetchSingleError(e)
  \/ \E s \in SnapshotArrays : FetchAll(Arr(s))
  \/ \E e \in FetchErrorBodies : FetchAll(Obj(e))
  \/ FetchFailed
  \/ SocketConnect
  \/ ConnectError
  \/ ConnectionLost
  \/ \E location \in Records : NewLocation(location)
  \/ Teardown
  \/ \E u \in Names \cup {""} : SetUsername(u)
  \/ ShareLocation
  \/ \E k \in 1..MaxInFlight, c \in Coords : CaptureSuccess(k, c)
  \/ \E k \in 1..MaxInFlight, m \in GeoErrors : CaptureError(k, m)
  \/ \E k \in 1..MaxInFlight, i \in Ids : PostSuccess(k, i)
  \/ \E k \in 1..MaxInFlight, e \in ShareErrorBodies : PostRejected(k, e)
  \/ \E k \in 1..MaxInFlight : PostFailed(k)
  \/ CopyFailed

Spec == Init /\ [][Next]_vars

-----------------------------------------------------------------------------
(* Properties *)

NoError == error = <<>>
SingleMode == locationId # ""
Settled == fetchPc = "done"
Items == locations.items

\* C1: in every reachable state the collection holds at most one record per
\* distinct id.
C1_UniqueIds == Cardinality(IdsOf(Items)) = Len(Items)

\* C2: in single-location mode, once the snapshot fetch has settled the
\* collection holds at most one record and no later step changes it.
C2_SingleModeFrozen ==
  [][(SingleMode /\ fetchPc' = "done") =>
       /\ Len(locations'.items) <= 1
       /\ (Settled => locations' = locations)]_vars

\* C2 witness: a newLocation event was handled in single-location mode after
\* the snapshot settled with a record.
C2_Witness ==
  SingleMode /\ Settled /\ last = "NewLocation" /\ Len(Items) = 1

\* C3: once a record with a given id is in the collection, a record with that
\* id is in the collection in every later state.
C3_NoRecordDeleted == [][IdsOf(Items) \subseteq IdsOf(locations'.items)]_vars

\* C4: a connect_error after the snapshot has been loaded and is shown sets an
\* error message, leaves the collection unchanged and leaves the loaded
\* records visible in the rendered view.
C4_ConnectErrorKeepsView ==
  [][(ConnectError /\ Settled /\ View = "main") =>
       (~NoError' /\ locations' = locations /\ View' = "main")]_vars

\* An error state with no share attempt in flight.
ErrorAndIdle == ~NoError /\ capturing = <<>> /\ posts = <<>>

\* Lemma for C5: error is cleared only by the success of a share attempt in
\* flight, and the share controls are not rendered while error is set; so a
\* state with an error and no attempt in flight stays one for ever, and the
\* share action cannot be invoked in it.
ErrorAndIdleIsAbsorbing ==
  [][ErrorAndIdle => (ErrorAndIdle' /\ ~ShareControlsShown')]_vars

\* C5: from every reachable state in which an error message is set there is a
\* continuation in which the share action can be invoked again.  By the lemma
\* ErrorAndIdleIsAbsorbing this requires that no error state is without a
\* share attempt in flight (stated for all-locations mode, where the share
\* controls exist).
C5_ErrorRetriable == locationId = "" => ~ErrorAndIdle

\* C6: after the effect's cleanup, a snapshot fetch or a share submission that
\* resolves changes neither the collection, nor the error message, nor the
\* share link, nor the loading flag.
C6_DiscardedAfterTeardown ==
  [][(~mounted /\ ~crashed) =>
       /\ locations' = locations
       /\ error' = error
       /\ shareUrl' = shareUrl
       /\ isLoading' = isLoading]_vars

\* the collection new is old with the entry of r's id replaced in place by r
ReplacedInPlace(old, new, r) ==
  /\ Len(new) = Len(old)
  /\ \A j \in 1..Len(old) :
       /\ new[j].id = old[j].id
       /\ (old[j].id = r.id => new[j] = r)
       /\ (old[j].id # r.id => new[j] = old[j])

\* C7: a record arriving by newLocation event or by successful share whose id
\* is already in the collection replaces the existing entry in place.
C7_UpsertInPlace ==
  [][\A r \in Records :
       (/\ locationId = ""
        /\ locations.isArray
        /\ r.id \in IdsOf(Items)
        /\ \/ NewLocation(r)
           \/ \E k \in 1..Len(posts) :
                Created(posts[k], r.id) = r /\ PostSuccess(k, r.id))
       => ReplacedInPlace(Items, locations'.items, r)]_vars

\* C8: the step handling a transport failure of the snapshot fetch sets the
\* collection to exactly one placeholder record at (51.505, -0.09) and sets a
\* non-empty error message.
C8_FallbackWithError ==
  [][FetchFailed =>
       /\ locations'.isArray
       /\ Len(locations'.items) = 1
       /\ locations'.items[1].latitude = 51505
       /\ locations'.items[1].longitude = -90
       /\ error' # <<>>]_vars

\* C8 witness: the catch block ran in single-location mode.
C8_Witness ==
  /\ last = "FetchFailed" /\ SingleMode
  /\ Items = <<FallbackRecord>> /\ error = MsgFetchFailed

\* C9: in single-location mode an {error: e} answer to the fetch empties the
\* collection and sets the error message to e; no placeholder is substituted.
C9_NotFoundEmpty ==
  [][\A e \in FetchErrorBodies :
       FetchSingleError(e) => (locations' = Arr(<<>>) /\ error' = <<e>>)]_vars

\* C9 witness: the not-found answer was handled.
C9_Witness ==
  last = "FetchSingleError" /\ SingleMode /\ Items = <<>> /\ ~NoError

\* C10: a share invoked with an empty username or without geolocation sets an
\* error message and starts no capture and no POST; the collection and the
\* share link are unchanged.
C10_RejectedWithoutCapture ==
  [][(ShareLocation /\ (username = "" \/ ~hasGeolocation)) =>
       /\ error' # <<>>
       /\ capturing' = capturing
       /\ posts' = posts
       /\ locations' = locations
       /\ shareUrl' = shareUrl]_vars

\* C10 witness: the share was refused for lack of geolocation, the username
\* being set.
C10_Witness ==
  /\ last = "ShareLocation" /\ error = MsgNoGeolocation
  /\ username # "" /\ capturing = <<>> /\ posts = <<>>

\* C11: a share that succeeds with backend-assigned id X sets the share link
\* to <origin>?locationId=X and clears the error message; in all-locations
\* mode the collection afterwards contains the returned record, in
\* single-location mode the collection is unchanged.
C11_ShareSuccess ==
  [][\A k \in 1..Len(posts), i \in Ids :
       PostSuccess(k, i) =>
         /\ shareUrl' = <<Origin, "?locationId=", i>>
         /\ error' = <<>>
         /\ (locationId = "" =>
               \E j \in 1..Len(locations'.items) :
                 locations'.items[j] = Created(posts[k], i))
         /\ (locationId # "" => locations' = locations)]_vars

\* C11 witness: a share succeeded with id "b" in all-locations mode.
C11_Witness ==
  /\ last = "PostSuccess" /\ locationId = ""
  /\ shareUrl = <<Origin, "?locationId=", "b">> /\ NoError
  /\ "b" \in IdsOf(Items)

\* C12: the connection makes at most 3 reconnection attempts after losing or
\* failing to establish the connection; when the third has failed it is
\* failed, and no further attempt is made.
C12_BoundedReconnect ==
  [][/\ attempts' <= 3
     /\ ((ConnectError /\ attempts = 3) => sock' = "failed")
     /\ ((ConnectError /\ attempts < 3) =>
           (sock' = "connecting" /\ attempts' = attempts + 1))
     /\ (sock = "failed" =>
           (sock' \in {"failed", "closed"} /\ attempts' = attempts))]_vars

\* C12 witness: the third reconnection attempt has failed, and a later step
\* was taken.
C12_Witness ==
  sock = "failed" /\ attempts = 3 /\ last # "ConnectError"

\* C13: in every reachable state the viewport center is the coordinates of
\* the last record of the collection, and it is the default (51.505, -0.09)
\* exactly when the collection is empty.
C13_CenterExact ==
  /\ (Len(Items) > 0 =>
        mapCenter = <<Items[Len(Items)].latitude, Items[Len(Items)].longitude>>)
  /\ (mapCenter = <<51505, -90>> <=> Len(Items) = 0)

\* C13 as amended: the viewport center is the coordinates of the last record
\* when the collection has records, and the default when it has none.
C13_CenterOfLast ==
  /\ (Len(Items) > 0 =>
        mapCenter = <<Items[Len(Items)].latitude, Items[Len(Items)].longitude>>)
  /\ (Len(Items) = 0 => mapCenter = <<51505, -90>>)

\* C13 witness: two records with different coordinates, the center being
\* that of the second.
C13_Witness ==
  /\ Len(Items) = 2
  /\ Items[1].latitude # Items[2].latitude
  /\ mapCenter = <<Items[2].latitude, Items[2].longitude>>

\* a step of the socket: a connection attempt succeeding or failing, the
\* connection being lost, or a newLocation event being delivered
SocketStep ==
  \/ SocketConnect
  \/ ConnectError
  \/ ConnectionLost
  \/ \E location \in Records : NewLocation(location)

\* C14: the cleanup closes the connection; afterwards the connection stays
\* closed, no reconnection attempt is made and no newLocation event is
\* delivered.
C14_ClosedOnTeardown ==
  [][/\ (Teardown => sock' = "closed")
     /\ (~mounted =>
           (sock = "closed" /\ sock' = "closed" /\ attempts' = attempts
            /\ ~SocketStep))]_vars

\* C14 witness: the cleanup ran while the fetch was pending and the socket
\* was connected or connecting, and the fetch settled afterwards.
C14_Witness ==
  /\ ~mounted /\ ~crashed /\ sock = "closed"
  /\ Settled /\ last \in {"FetchAll", "FetchSingleRecord"}

\* C15: in every state where the view renders the collection (loading
\* finished, no error), the snapshot result has already been applied.
C15_SnapshotBeforeVisible == View = "main" => Settled

\* C15 witness: a record pushed by the stream is rendered after the snapshot.
C15_Witness ==
  View = "main" /\ Settled /\ last = "NewLocation" /\ Len(Items) >= 1

\* C16: in all-locations mode a newLocation event carrying an id that is not
\* in the collection leaves the collection equal to the previous one with
\* that record appended at the end.
C16_AppendAtEnd ==
  [][\A r \in Records :
       (locationId = "" /\ r.id \notin IdsOf(Items) /\ NewLocation(r))
       => (locations'.isArray /\ locations'.items = Append(Items, r))]_vars

\* C16 restricted to states whose collection is an array (holds).
AppendAtEndOfArray ==
  [][\A r \in Records :
       (locationId = "" /\ locations.isArray /\ r.id \notin IdsOf(Items)
        /\ NewLocation(r))
       => (locations'.isArray /\ locations'.items = Append(Items, r))]_vars

\* a share attempt fails after the checks: the capture fails, the POST is
\* answered with {error: e}, or the POST fails at the transport level
ShareFails ==
  \/ \E k \in 1..Len(capturing), m \in GeoErrors : CaptureError(k, m)
  \/ \E k \in 1..Len(posts), e \in ShareErrorBodies : PostRejected(k, e)
  \/ \E k \in 1..Len(posts) : PostFailed(k)

\* C17: a share attempt that fails after the precondition checks sets a
\* non-empty error message and leaves the collection and the share link
\* unchanged; a failed capture sends no POST.
C17_FailedShareFrame ==
  [][/\ (ShareFails =>
           (error' # <<>> /\ locations' = locations /\ shareUrl' = shareUrl))
     /\ ((\E k \in 1..Len(capturing), m \in GeoErrors : CaptureError(k, m))
           => posts' = posts)]_vars

\* C17 witness: the backend rejected the POST of a first share.
C17_Witness ==
  /\ last = "PostRejected" /\ error = <<"invalid">>
  /\ shareUrl = <<>> /\ posts = <<>>

\* a newLocation event is delivered or a share submission succeeds
AppendStep ==
  \/ \E location \in Records : NewLocation(location)
  \/ \E k \in 1..Len(posts), i \in Ids : PostSuccess(k, i)

\* C18: in all-locations mode, once the snapshot has been applied, the number
\* of records is the snapshot's length plus the number of newLocation events
\* delivered plus the number of shares that succeeded since.  Stated step by
\* step: from then on each delivered event and each successful share adds
\* exactly one record, and no other step changes the number of records.
C18_NoAppendLost ==
  [][(locationId = "" /\ Settled) =>
       Len(locations'.items) = Len(Items) + (IF AppendStep THEN 1 ELSE 0)]_vars

\* C18 restricted to states whose collection is an array (holds).
NoAppendLostOfArray ==
  [][(locationId = "" /\ Settled /\ locations.isArray) =>
       Len(locations'.items) = Len(Items) + (IF AppendStep THEN 1 ELSE 0)]_vars

\* C19: in every reachable state the collection is a list of records.
C19_CollectionIsArray == locations.isArray

\* C20: the loading flag starts true, becomes false in the step in which the
\* snapshot fetch settles, whatever the outcome, and never becomes true
\* again; so loading has ended as soon as the fetch has settled.
C20_LoadingEndsOnSettle ==
  /\ isLoading = TRUE
  /\ [][/\ ((~Settled /\ Settled') => (isLoading /\ ~isLoading'))
        /\ (~isLoading => ~isLoading')
        /\ (Settled' <=> ~isLoading')]_vars

\* C20 witness: the fetch settled with a record in single-location mode and
\* loading is still over after a later step.
C20_Witness ==
  SingleMode /\ Settled /\ ~isLoading /\ Len(Items) = 1 /\ last = "ConnectError"

====
